---- MODULE Spec2Model ----
(***************************************************************************)
(* A model of Smartpointer.cpp: the class Resource (constructor,           *)
(* destructor, display), the two demonstrations withoutSmartPointer and    *)
(* withUniquePointer, and main.                                            *)
(*                                                                         *)
(* One action per statement of the source; a statement that allocates and  *)
(* constructs (a new-expression, make_unique) or destroys and deallocates  *)
(* (a delete-expression, ~unique_ptr) is two steps, as the language        *)
(* defines it: operator new, then the constructor; the destructor, then    *)
(* operator delete.  The free store hands out any free address, and a      *)
(* fresh block holds an indeterminate value until the constructor          *)
(* initialises it.  operator new is taken to succeed (the spec: no         *)
(* operation of the design is specified to fail).                          *)
(*                                                                         *)
(* The program is run NumRuns times in a row, each run a fresh process, so *)
(* that runs can be compared with each other.                              *)
(***************************************************************************)
EXTENDS Integers, Sequences, FiniteSets, TLC

\* ------------------------------------------------------------- bounds
\* Number of addresses of the free store.
HeapSize == 4
\* A fresh block holds any value of 0..MaxJunk before it is initialised.
MaxJunk == 1
\* How many times the program is run, one run after the other.
NumRuns == 2

\* ---------------------------------------------------- program constants
\* new Resource(42)
RawValue == 42
\* std::make_unique<Resource>(42)
UniqueValue == 42

Addr == 1..HeapSize
Junk == 0..MaxJunk
Runs == 1..NumRuns

VARIABLES
    run,        \* which run of the program this is
    pc,         \* the statement control is at
    heap,       \* the free store: address -> block
    newExpr,    \* the address operator new returned to the pending new-expression
    rawPtr,     \* withoutSmartPointer's local: <<>> out of scope, <<a>> holding a
    smartPtr,   \* withUniquePointer's local: <<>> out of scope or null, <<a>> owning a
    log,        \* standard output of this run, one record per line: the text
                \* (line), and for the properties what wrote it (kind: "text",
                \* "ctor", "dtor", "display"), about which instance (inst: the
                \* n-th constructed, 0 for none), with which value (val), from
                \* which statement (at)
    nextId,     \* Resource instances constructed so far in this run
    exitCode,   \* <<>> while running, <<c>> once main has returned c
    finished    \* the completed runs: output, exit code and final memory of each

vars == <<run, pc, heap, newExpr, rawPtr, smartPtr, log, nextId, exitCode, finished>>

\* A block that is not allocated.
FreeBlock == [st |-> "free", data |-> 0, id |-> 0]

\* The text of the lines written so far.
Output == [i \in DOMAIN log |-> log[i].line]

\* std::cout << text << std::endl, for a line that is not about an instance.
Cout(text) == log' = Append(log, [line |-> text, kind |-> "text", inst |-> 0, val |-> 0, at |-> pc])

\* The state a process starts in.
ProcessStart ==
    /\ pc = "main_67"
    /\ heap = [a \in Addr |-> FreeBlock]
    /\ newExpr = << >>
    /\ rawPtr = << >>
    /\ smartPtr = << >>
    /\ log = << >>
    /\ nextId = 0
    /\ exitCode = << >>

Init ==
    /\ run = 1
    /\ finished = << >>
    /\ ProcessStart

\* operator new: any free address, holding an indeterminate value.
OperatorNew ==
    \E a \in Addr, g \in Junk :
        /\ heap[a].st = "free"
        /\ heap' = [heap EXCEPT ![a] = [st |-> "alloc", data |-> g, id |-> 0]]
        /\ newExpr' = <<a>>

\* operator delete: the block goes back to the free store.
OperatorDelete(a) == heap' = [heap EXCEPT ![a] = FreeBlock]

\* What a read of the member data of the object at a can yield: the member of
\* a live object, anything for an object that is not live.
ReadData(a) == IF heap[a].st = "live" THEN {heap[a].data} ELSE Junk \cup {heap[a].data}

\* Mutant: the constructor without its member initialiser; data keeps what
\* the fresh block held.
ResourceCtor_uninit(a, value) ==
    /\ heap' = [heap EXCEPT ![a].st = "live", ![a].id = nextId + 1]
    /\ nextId' = nextId + 1
    /\ log' = Append(log, [line |-> "Resource constructor. Value: " \o ToString(heap'[a].data),
                           kind |-> "ctor", inst |-> nextId + 1, val |-> value, at |-> pc])

\* Resource::Resource(int value) : data(value), then the construction line.
ResourceCtor(a, value) ==
    /\ heap' = [heap EXCEPT ![a] = [st |-> "live", data |-> value, id |-> nextId + 1]]
    /\ nextId' = nextId + 1
    /\ log' = Append(log, [line |-> "Resource constructor. Value: " \o ToString(heap'[a].data),
                           kind |-> "ctor", inst |-> nextId + 1, val |-> value, at |-> pc])

\* Resource::~Resource(): the destruction line, and the object's lifetime ends.
ResourceDtor(a) ==
    \E d \in ReadData(a) :
        /\ log' = Append(log, [line |-> "Resource destructor. Value: " \o ToString(d),
                               kind |-> "dtor", inst |-> heap[a].id, val |-> d, at |-> pc])
        /\ heap' = [heap EXCEPT ![a].st = "dead"]

\* Mutant: display writes the object's address, not its value.
ResourceDisplay_addr(a) ==
    log' = Append(log, [line |-> "Value: " \o ToString(a),
                        kind |-> "display", inst |-> heap[a].id, val |-> a, at |-> pc])

\* Resource::display()
ResourceDisplay(a) ==
    \E d \in ReadData(a) :
        log' = Append(log, [line |-> "Value: " \o ToString(d),
                            kind |-> "display", inst |-> heap[a].id, val |-> d, at |-> pc])

\* ------------------------------------------------------------- main
main_67 ==
    /\ pc = "main_67"
    /\ Cout("Without Smart Pointer:")
    /\ pc' = "main_68"
    /\ UNCHANGED <<run, heap, newExpr, rawPtr, smartPtr, nextId, exitCode, finished>>

main_68 ==
    /\ pc = "main_68"
    /\ pc' = "wsp_40_new"
    /\ UNCHANGED <<run, heap, newExpr, rawPtr, smartPtr, log, nextId, exitCode, finished>>

\* Mutant: the blank line between the demonstrations is left out.
main_69_noBlank ==
    /\ pc = "main_69"
    /\ pc' = "main_71"
    /\ UNCHANGED <<run, heap, newExpr, rawPtr, smartPtr, log, nextId, exitCode, finished>>

main_69 ==
    /\ pc = "main_69"
    /\ Cout("")
    /\ pc' = "main_71"
    /\ UNCHANGED <<run, heap, newExpr, rawPtr, smartPtr, nextId, exitCode, finished>>

main_71 ==
    /\ pc = "main_71"
    /\ Cout("With Smart Pointer:")
    /\ pc' = "main_72"
    /\ UNCHANGED <<run, heap, newExpr, rawPtr, smartPtr, nextId, exitCode, finished>>

main_72 ==
    /\ pc = "main_72"
    /\ pc' = "wup_52_new"
    /\ UNCHANGED <<run, heap, newExpr, rawPtr, smartPtr, log, nextId, exitCode, finished>>

main_73 ==
    /\ pc = "main_73"
    /\ Cout("")
    /\ pc' = "main_75"
    /\ UNCHANGED <<run, heap, newExpr, rawPtr, smartPtr, nextId, exitCode, finished>>

\* Mutant: main returns 1.
main_75_return1 ==
    /\ pc = "main_75"
    /\ exitCode' = <<1>>
    /\ pc' = "done"
    /\ finished' = Append(finished, [out |-> Output, exit |-> 1,
                                     mem |-> <<heap, newExpr, rawPtr, smartPtr>>])
    /\ UNCHANGED <<run, heap, newExpr, rawPtr, smartPtr, log, nextId>>

\* return 0: the process ends; what it wrote and returned is on record.
main_75 ==
    /\ pc = "main_75"
    /\ exitCode' = <<0>>
    /\ pc' = "done"
    /\ finished' = Append(finished, [out |-> Output, exit |-> 0,
                                     mem |-> <<heap, newExpr, rawPtr, smartPtr>>])
    /\ UNCHANGED <<run, heap, newExpr, rawPtr, smartPtr, log, nextId>>

\* ------------------------------------------------ withoutSmartPointer
\* Resource *rawPtr = new Resource(42): the allocation.
withoutSmartPointer_40_new ==
    /\ pc = "wsp_40_new"
    /\ OperatorNew
    /\ pc' = "wsp_40_ctor"
    /\ UNCHANGED <<run, rawPtr, smartPtr, log, nextId, exitCode, finished>>

\* Resource *rawPtr = new Resource(42): the construction, and rawPtr holds it.
withoutSmartPointer_40_ctor ==
    /\ pc = "wsp_40_ctor"
    /\ ResourceCtor(newExpr[1], RawValue)
    /\ rawPtr' = newExpr
    /\ newExpr' = << >>
    /\ pc' = "wsp_43"
    /\ UNCHANGED <<run, smartPtr, exitCode, finished>>

\* Mutant: the delete statement is left out; control goes from the display to
\* the message.
withoutSmartPointer_43_noDelete ==
    /\ pc = "wsp_43"
    /\ ResourceDisplay(rawPtr[1])
    /\ pc' = "wsp_47"
    /\ UNCHANGED <<run, heap, newExpr, rawPtr, smartPtr, nextId, exitCode, finished>>

\* rawPtr->display()
withoutSmartPointer_43 ==
    /\ pc = "wsp_43"
    /\ ResourceDisplay(rawPtr[1])
    /\ pc' = "wsp_46_dtor"
    /\ UNCHANGED <<run, heap, newExpr, rawPtr, smartPtr, nextId, exitCode, finished>>

\* Mutant: the block is given back without the destructor being run.
withoutSmartPointer_46_nodtor ==
    /\ pc = "wsp_46_dtor"
    /\ pc' = "wsp_46_free"
    /\ UNCHANGED <<run, heap, newExpr, rawPtr, smartPtr, log, nextId, exitCode, finished>>

\* delete rawPtr: the destructor.
withoutSmartPointer_46_dtor ==
    /\ pc = "wsp_46_dtor"
    /\ ResourceDtor(rawPtr[1])
    /\ pc' = "wsp_46_free"
    /\ UNCHANGED <<run, newExpr, rawPtr, smartPtr, nextId, exitCode, finished>>

\* delete rawPtr: the deallocation; rawPtr keeps the address.
withoutSmartPointer_46_free ==
    /\ pc = "wsp_46_free"
    /\ OperatorDelete(rawPtr[1])
    /\ pc' = "wsp_47"
    /\ UNCHANGED <<run, newExpr, rawPtr, smartPtr, log, nextId, exitCode, finished>>

withoutSmartPointer_47 ==
    /\ pc = "wsp_47"
    /\ Cout("Memory manually freed.")
    /\ pc' = "wsp_48"
    /\ UNCHANGED <<run, heap, newExpr, rawPtr, smartPtr, nextId, exitCode, finished>>

\* The closing brace: rawPtr goes out of scope, control is back in main.
withoutSmartPointer_48 ==
    /\ pc = "wsp_48"
    /\ rawPtr' = << >>
    /\ pc' = "main_69"
    /\ UNCHANGED <<run, heap, newExpr, smartPtr, log, nextId, exitCode, finished>>

\* -------------------------------------------------- withUniquePointer
\* std::make_unique<Resource>(42): the allocation.
withUniquePointer_52_new ==
    /\ pc = "wup_52_new"
    /\ OperatorNew
    /\ pc' = "wup_52_ctor"
    /\ UNCHANGED <<run, rawPtr, smartPtr, log, nextId, exitCode, finished>>

\* Mutant: the unique_ptr is made from a raw pointer that is kept as well.
withUniquePointer_52_ctor_shared ==
    /\ pc = "wup_52_ctor"
    /\ ResourceCtor(newExpr[1], UniqueValue)
    /\ smartPtr' = newExpr
    /\ rawPtr' = newExpr
    /\ newExpr' = << >>
    /\ pc' = "wup_55"
    /\ UNCHANGED <<run, exitCode, finished>>

\* std::make_unique<Resource>(42): the construction, and smartPtr owns it.
withUniquePointer_52_ctor ==
    /\ pc = "wup_52_ctor"
    /\ ResourceCtor(newExpr[1], UniqueValue)
    /\ smartPtr' = newExpr
    /\ newExpr' = << >>
    /\ pc' = "wup_55"
    /\ UNCHANGED <<run, rawPtr, exitCode, finished>>

\* Mutant: the display is left out.
withUniquePointer_55_skip ==
    /\ pc = "wup_55"
    /\ pc' = "wup_59_dtor"
    /\ UNCHANGED <<run, heap, newExpr, rawPtr, smartPtr, log, nextId, exitCode, finished>>

\* Mutant: the Resource is destroyed by hand right after the display, before
\* the scope ends.
withUniquePointer_55_reset ==
    /\ pc = "wup_55"
    /\ log' = log \o << [line |-> "Value: " \o ToString(heap[smartPtr[1]].data),
                         kind |-> "display", inst |-> heap[smartPtr[1]].id,
                         val |-> heap[smartPtr[1]].data, at |-> pc],
                        [line |-> "Resource destructor. Value: " \o ToString(heap[smartPtr[1]].data),
                         kind |-> "dtor", inst |-> heap[smartPtr[1]].id,
                         val |-> heap[smartPtr[1]].data, at |-> pc] >>
    /\ heap' = [heap EXCEPT ![smartPtr[1]].st = "dead"]
    /\ pc' = "wup_59_dtor"
    /\ UNCHANGED <<run, newExpr, rawPtr, smartPtr, nextId, exitCode, finished>>

\* smartPtr->display()
withUniquePointer_55 ==
    /\ pc = "wup_55"
    /\ ResourceDisplay(smartPtr[1])
    /\ pc' = "wup_59_dtor"
    /\ UNCHANGED <<run, heap, newExpr, rawPtr, smartPtr, nextId, exitCode, finished>>

\* Mutant: ownership was given up; the scope ends without the destructor.
withUniquePointer_59_dtor_released ==
    /\ pc = "wup_59_dtor"
    /\ pc' = "wup_59_free"
    /\ UNCHANGED <<run, heap, newExpr, rawPtr, smartPtr, log, nextId, exitCode, finished>>

\* The closing brace, ~unique_ptr: a pointer that is not null is deleted;
\* first the destructor of the object it owns.
withUniquePointer_59_dtor ==
    /\ pc = "wup_59_dtor"
    /\ IF smartPtr # << >>
         THEN ResourceDtor(smartPtr[1])
         ELSE UNCHANGED <<heap, log>>
    /\ pc' = "wup_59_free"
    /\ UNCHANGED <<run, newExpr, rawPtr, smartPtr, nextId, exitCode, finished>>

\* ~unique_ptr: the deallocation; smartPtr is gone, control is back in main.
withUniquePointer_59_free ==
    /\ pc = "wup_59_free"
    /\ IF smartPtr # << >>
         THEN OperatorDelete(smartPtr[1])
         ELSE UNCHANGED heap
    /\ smartPtr' = << >>
    /\ pc' = "main_73"
    /\ UNCHANGED <<run, newExpr, rawPtr, log, nextId, exitCode, finished>>

\* ------------------------------------------------------- the next run
\* The program is run again: a new process, which inherits nothing.
Rerun ==
    /\ pc = "done"
    /\ run < NumRuns
    /\ run' = run + 1
    /\ pc' = "main_67"
    /\ heap' = [a \in Addr |-> FreeBlock]
    /\ newExpr' = << >>
    /\ rawPtr' = << >>
    /\ smartPtr' = << >>
    /\ log' = << >>
    /\ nextId' = 0
    /\ exitCode' = << >>
    /\ UNCHANGED finished

Next ==
    \/ main_67
    \/ main_68
    \/ withoutSmartPointer_40_new
    \/ withoutSmartPointer_40_ctor
    \/ withoutSmartPointer_43
    \/ withoutSmartPointer_46_dtor
    \/ withoutSmartPointer_46_free
    \/ withoutSmartPointer_47
    \/ withoutSmartPointer_48
    \/ main_69
    \/ main_71
    \/ main_72
    \/ withUniquePointer_52_new
    \/ withUniquePointer_52_ctor
    \/ withUniquePointer_55
    \/ withUniquePointer_59_dtor
    \/ withUniquePointer_59_free
    \/ main_73
    \/ main_75
    \/ Rerun

Spec == Init /\ [][Next]_vars

\* A sequential program always takes its next step.
FairSpec == Spec /\ WF_vars(Next)

\* ---------------------------------------------------------- properties
\* The lines of this run of a kind about instance n.
Lines(k, n) == {i \in DOMAIN log : log[i].kind = k /\ log[i].inst = n}
\* The lines of this run with a text.
LinesOf(text) == {i \in DOMAIN log : log[i].line = text}
\* The instances constructed by a statement.
InstancesOf(stmt) == {log[i].inst : i \in {j \in DOMAIN log : log[j].kind = "ctor" /\ log[j].at = stmt}}
ManualInst == InstancesOf("wsp_40_ctor")
ScopedInst == InstancesOf("wup_52_ctor")
Live == {a \in Addr : heap[a].st = "live"}

\* C1: each Resource instance emits exactly one construction signal and
\* exactly one destruction signal (never two of either at any point, one of
\* each once main has returned), and a run constructs exactly two instances,
\* one in withoutSmartPointer and one in withUniquePointer.
C1_OneCtorOneDtorPerInstance ==
    /\ \A i \in DOMAIN log : log[i].kind \in {"ctor", "dtor"} => log[i].inst \in 1..nextId
    /\ \A n \in 1..nextId :
        /\ Cardinality(Lines("ctor", n)) = 1
        /\ Cardinality(Lines("dtor", n)) <= 1
    /\ Cardinality(ManualInst) <= 1
    /\ Cardinality(ScopedInst) <= 1
    /\ ManualInst \cup ScopedInst = 1..nextId
    /\ pc = "done" =>
        /\ nextId = 2
        /\ Cardinality(ManualInst) = 1
        /\ Cardinality(ScopedInst) = 1
        /\ \A n \in 1..nextId : Cardinality(Lines("dtor", n)) = 1

C1_Witness ==
    /\ pc = "done"
    /\ run = NumRuns
    /\ Cardinality(Lines("ctor", 1)) = 1 /\ Cardinality(Lines("dtor", 1)) = 1
    /\ Cardinality(Lines("ctor", 2)) = 1 /\ Cardinality(Lines("dtor", 2)) = 1

\* C2, as claimed: the destruction signal of the manual Resource appears
\* strictly after "Memory manually freed." and strictly after its display
\* line.
C2_DtorAfterFreedMessage ==
    \A n \in ManualInst : \A i \in Lines("dtor", n) :
        /\ \E m \in LinesOf("Memory manually freed.") : m < i
        /\ \E d \in Lines("display", n) : d < i

\* C2, amended: the destruction signal "Resource destructor. Value: 42" of
\* the manual Resource appears strictly after its display line "Value: 42"
\* and strictly before "Memory manually freed.", which withoutSmartPointer
\* writes once, after the delete.
C2_DtorBeforeFreedMessage ==
    /\ \A n \in ManualInst : \A i \in Lines("dtor", n) :
        /\ log[i].line = "Resource destructor. Value: 42"
        /\ \E d \in Lines("display", n) : d < i /\ log[d].line = "Value: 42"
        /\ \A m \in LinesOf("Memory manually freed.") : i < m
    /\ \A m \in LinesOf("Memory manually freed.") :
        \E n \in ManualInst : \E i \in Lines("dtor", n) : i < m
    /\ Cardinality(LinesOf("Memory manually freed.")) <= 1
    /\ pc \in {"wsp_48", "main_69", "done"} => Cardinality(LinesOf("Memory manually freed.")) = 1

C2_Witness ==
    /\ pc = "wsp_48"
    /\ \E n \in ManualInst : \E i \in Lines("dtor", n) :
         \E m \in LinesOf("Memory manually freed.") : i < m

\* The output the claim C3 gives.
ClaimedOutput ==
    << "Without Smart Pointer:",
       "Resource constructor. Value: 42",
       "Value: 42",
       "Resource destructor. Value: 42",
       "Memory manually freed.",
       "",
       "With Smart Pointer:",
       "Resource constructor. Value: 42",
       "Value: 42",
       "",
       "Resource destructor. Value: 42" >>

\* The output with the scoped Resource's destruction signal before the last
\* blank line.
ActualOutput ==
    << "Without Smart Pointer:",
       "Resource constructor. Value: 42",
       "Value: 42",
       "Resource destructor. Value: 42",
       "Memory manually freed.",
       "",
       "With Smart Pointer:",
       "Resource constructor. Value: 42",
       "Value: 42",
       "Resource destructor. Value: 42",
       "" >>

\* C3, as claimed: main writes exactly ClaimedOutput, the scoped Resource's
\* destruction signal last, and exits with code 0.
C3_ClaimedSequence ==
    pc = "done" => Output = ClaimedOutput /\ exitCode = <<0>>

\* C3, amended: main writes exactly ActualOutput, in this order and nothing
\* else (the scoped Resource's destruction signal comes before the final
\* blank line, which is the last output), and exits with code 0.
C3_ActualSequence ==
    /\ Len(Output) <= Len(ActualOutput)
    /\ Output = SubSeq(ActualOutput, 1, Len(Output))
    /\ pc = "done" => Output = ActualOutput /\ exitCode = <<0>>
    /\ pc # "done" => exitCode = << >>

C3_Witness ==
    pc = "done" /\ run = 1 /\ Len(Output) = 11 /\ Output[10] = "Resource destructor. Value: 42"

\* C4: the destruction signal of the scoped Resource appears after the header
\* "With Smart Pointer:" and after that instance's display line, no "Memory
\* manually freed." lies between the header and it, and it is written by the
\* end of withUniquePointer's scope, not by a statement of the caller.
C4_ScopedDtorAfterHeaderAndDisplay ==
    /\ \A n \in ScopedInst : \A i \in Lines("dtor", n) :
        /\ log[i].at = "wup_59_dtor"
        /\ \E h \in LinesOf("With Smart Pointer:") :
            /\ h < i
            /\ \E d \in Lines("display", n) : h < d /\ d < i
            /\ \A m \in LinesOf("Memory manually freed.") : ~(h < m /\ m < i)
    /\ pc \in {"wup_59_free", "main_73", "main_75", "done"} =>
        \E n \in ScopedInst : Lines("dtor", n) # {}

C4_Witness ==
    /\ pc = "main_73"
    /\ \E n \in ScopedInst : Lines("dtor", n) # {}
    /\ LinesOf("Memory manually freed.") # {}

\* C5: every display of an instance happens while it is live, strictly after
\* its construction signal and strictly before its destruction signal, and
\* shows the value the instance was constructed with, 42.
C5_DisplayWhileLive ==
    \A i \in DOMAIN log : log[i].kind = "display" =>
        /\ \E c \in Lines("ctor", log[i].inst) :
            /\ c < i
            /\ log[c].val = log[i].val
        /\ \A d \in Lines("dtor", log[i].inst) : i < d
        /\ log[i].val = 42
        /\ log[i].line = "Value: 42"

C5_Witness ==
    /\ pc = "done"
    /\ \A n \in 1..2 : \E i \in Lines("display", n) : \E d \in Lines("dtor", n) : i < d

\* The lifetime state of the scoped Resource of this run.
ScopedLife ==
    IF ScopedInst = {} THEN "unowned"
    ELSE IF smartPtr # << >> /\ heap[smartPtr[1]].st = "live" /\ heap[smartPtr[1]].id \in ScopedInst
         THEN "owned-live"
         ELSE "released"

\* C6: the scoped Resource goes unowned -> owned-live -> released; the step
\* owned-live -> released is taken only by the end of withUniquePointer's
\* scope, it writes the instance's one destruction signal, and a released
\* instance is never owned-live again.
C6_ScopedLifetime ==
    /\ [](/\ \A n \in ScopedInst :
              Cardinality(Lines("dtor", n)) = (IF ScopedLife = "released" THEN 1 ELSE 0)
          /\ pc \in {"main_73", "main_75", "done"} => ScopedLife = "released")
    /\ [][/\ ScopedLife = "unowned" => ScopedLife' \in {"unowned", "owned-live"}
          /\ ScopedLife = "owned-live" /\ ScopedLife' # "owned-live" =>
                pc = "wup_59_dtor" /\ ScopedLife' = "released"
          /\ ScopedLife = "released" => ScopedLife' # "owned-live"
         ]_vars

C6_Witness ==
    pc = "wup_59_free" /\ ScopedLife = "released" /\ smartPtr # << >>

\* No Resource constructed in this run is left undestructed, and no block of
\* the free store is left allocated.
NoLeak ==
    /\ \A n \in 1..nextId : Lines("dtor", n) # {}
    /\ \A a \in Addr : heap[a].st = "free"

\* C7: every run of main terminates, with exit code 0 and every Resource it
\* constructed destructed.
C7_TerminatesWithoutLeak ==
    /\ \A r \in Runs : <>(run = r /\ pc = "done")
    /\ [](pc = "done" => exitCode = <<0>> /\ nextId > 0 /\ NoLeak)

C7_Witness ==
    pc = "done" /\ run = NumRuns /\ exitCode = <<0>> /\ nextId = 2 /\ NoLeak

\* The variables that hold the address a.
Owners(a) == {v \in {"rawPtr", "smartPtr"} :
                 (IF v = "rawPtr" THEN rawPtr ELSE smartPtr) = <<a>>}

\* C8: a live Resource has exactly one owner, rawPtr for the instance of
\* withoutSmartPointer and smartPtr for the instance of withUniquePointer,
\* and its owner does not change while it is live.
C8_ExactlyOneOwner ==
    /\ [](\A a \in Live :
            /\ heap[a].id \in ManualInst => Owners(a) = {"rawPtr"}
            /\ heap[a].id \in ScopedInst => Owners(a) = {"smartPtr"}
            /\ Cardinality(Owners(a)) = 1)
    /\ [][\A a \in Live : (a \in Live' /\ heap'[a].id = heap[a].id) => Owners(a)' = Owners(a)]_vars

C8_Witness ==
    /\ pc = "wup_55"
    /\ \E a \in Live : Owners(a) = {"smartPtr"}
    /\ finished # << >>

\* C9: any two runs of the program write the same output, return the same
\* exit code and end with the same memory, whatever addresses and fresh
\* values the free store gave them, and a run starts from the state the
\* first run started from.
C9_RunsIdentical ==
    /\ \A i, j \in DOMAIN finished : finished[i] = finished[j]
    /\ pc = "main_67" => ProcessStart

C9_Witness ==
    Len(finished) = NumRuns /\ NumRuns >= 2 /\ finished[1].out = finished[NumRuns].out

\* C10: at most one Resource is live at any point; the manual Resource is
\* destructed before the scoped Resource is constructed, and neither
\* demonstration holds a pointer of the other.
C10_LifetimesDisjoint ==
    /\ Cardinality(Live) <= 1
    /\ Cardinality({a \in Addr : heap[a].st # "free"}) <= 1
    /\ \A s \in ScopedInst : \A c \in Lines("ctor", s) :
         \A m \in ManualInst : \E d \in Lines("dtor", m) : d < c
    /\ ScopedInst # {} => ManualInst # {}
    /\ smartPtr # << >> => rawPtr = << >>
    /\ rawPtr # << >> => smartPtr = << >>

C10_Witness ==
    /\ pc = "wup_55"
    /\ Cardinality(Live) = 1
    /\ \E m \in ManualInst : Lines("dtor", m) # {}
====
